---- MODULE Spec2Model ----
(***************************************************************************)
(* Model of the autograder batch: main.py's coordinator loop over a        *)
(* ThreadPoolExecutor, process_single_submission's pipeline (prepare ->    *)
(* batched scoring -> result handling) and the CSV appends.                *)
(*                                                                         *)
(* Conventions.  An optional value (Python's "X | None") is a sequence:    *)
(* <<>> is None and <<x>> is the value x.  Scores are integers counted in  *)
(* hundredths of a point (500 is 5 points), so round(value, 2) leaves them *)
(* unchanged.  A folder is identified by its position in the sorted list   *)
(* that get_submissions returns.                                           *)
(***************************************************************************)
EXTENDS Integers, Sequences, FiniteSets

\* ------------------------------------------------------------------ bounds

\* Number of submission folders get_submissions returns (at least one: main
\* exits before the batch when the list is empty).
NumFolders == 2

\* Number of criteria of the rubric (at least one: print_rubric takes max()
\* over the criteria and raises on an empty rubric before the batch starts).
NumCriteria == 2

\* ------------------------------------------------------------- basic values

None == <<>>

Some(x) == <<x>>

PENDING == "pending"

SCORING == "scoring"

SCORED == "scored"

FAILED == "failed"

Folders == 1..NumFolders

\* ------------------------------------------------------------------- rubric

\* Level(definition, score)
Level(d, s) == [definition |-> d, score |-> s]

\* Criteria(name, levels): criterion i has the levels low/0 and high/5*i points.
Criteria(i) ==
    [name |-> <<"criterion", i>>,
     levels |-> <<Level("low", 0), Level("high", 500 * i)>>]

\* Rubric.criteria, the list main passes to every process_single_submission.
RubricCriteria == [i \in 1..NumCriteria |-> Criteria(i)]

LevelsOf(criteria) == {criteria.levels[k] : k \in 1..Len(criteria.levels)}

\* ------------------------------------------------------------ folder names

StudentTokens == <<"ada", "bob", "cy", "dee", "eve">>

DigitTokens == {"101", "102", "103", "104", "105"}

IdTokens == <<"101", "102", "103", "104", "105">>

\* The last path component of folder f, split at "_":
\* e.g. ada_lovelace_101_assignsubmission_file.
FolderName(f) ==
    <<StudentTokens[((f - 1) % 5) + 1], "lovelace", IdTokens[((f - 1) % 5) + 1],
      "assignsubmission", "file">>

\* re.sub(r"_\d+_assignsubmission_file.*$", "", folder_name).replace("_", " "):
\* the name is cut at the first "_<digits>_assignsubmission_file"; the tokens
\* kept are the words of the name (joined by spaces).
extract_name(tokens) ==
    LET cuts == {i \in 2..Len(tokens) :
                    /\ tokens[i] \in DigitTokens
                    /\ i + 2 <= Len(tokens)
                    /\ tokens[i + 1] = "assignsubmission"
                    /\ tokens[i + 2] = "file"}
    IN  IF cuts = {} THEN tokens
        ELSE LET first == CHOOSE i \in cuts : \A j \in cuts : i <= j
             IN  SubSeq(tokens, 1, first - 1)

\* The .py files prepare_submission finds under folder f (rglob): folder 1 holds
\* one file, every other folder none.
FolderFiles(f) == IF f = 1 THEN <<"main.py">> ELSE <<>>

\* ------------------------------------------------------------- submissions

\* Submission(name, folder_path, files, status, score)
Submission(n, f, fs, st, sc) ==
    [name |-> n, folder_path |-> f, files |-> fs, status |-> st, score |-> sc]

\* prepare_submission's return value: the files read, status SCORING, no score.
prepare_submission(f) ==
    Submission(extract_name(FolderName(f)), f, FolderFiles(f), SCORING, None)

create_failed_submission(f, submission_name) ==
    Submission(extract_name(submission_name), f, <<>>, FAILED, None)

\* ------------------------------------------------- remote grading operation

\* The levels the remote model may name in selected_level.  The schema types
\* it as Level(definition: str, score: float), any text and any number; the
\* model draws from the levels that occur anywhere in the prompt's rubric.
LevelUniverse == UNION {LevelsOf(RubricCriteria[i]) : i \in 1..NumCriteria}

\* The feedback that comes with a level.  The schema allows any text or None
\* with any level; the prompt asks for a sentence "if the student did not
\* meet the criteria", and the model draws that case: a sentence with a level
\* worth no points, None with the others.
feedback_for(level) == IF level.score = 0 THEN Some("Needs work.") ELSE None

\* ScoreCriteriaResponse(selected_level, feedback)
ScoreCriteriaResponses ==
    {[selected_level |-> l, feedback |-> feedback_for(l)] : l \in LevelUniverse}

\* Sequences over S of length 0..n
SeqsUpTo(S, n) == UNION {[1..k -> S] : k \in 0..n}

\* What the remote call of the batched scoring task can come back with:
\* nothing (an error, a timeout, no parsed output), or a parsed reply whose
\* criteria_scores list has any length and whose overall_feedback is a text
\* ("" included) or is missing from the reply (None here).
NoReply == [kind |-> "none"]

ParsedReplies ==
    [kind : {"parsed"},
     criteria_scores : SeqsUpTo(ScoreCriteriaResponses, NumCriteria),
     overall_feedback : {None, Some(""), Some("Great job.")}]

Replies == {NoReply} \cup ParsedReplies

\* BatchedScoreResponse: criteria_scores is a List[ScoreCriteriaResponse] of
\* any length, overall_feedback is a required str.
BatchedScoreResponseValid(reply) ==
    /\ reply.kind = "parsed"
    /\ \A i \in 1..Len(reply.criteria_scores) :
          reply.criteria_scores[i] \in ScoreCriteriaResponses
    /\ reply.overall_feedback # None

\* CriteriaScore(criteria_name, level_definition, score, feedback) as
\* score_criteria builds it: the name from the criterion, the level copied
\* from the reply unchecked.
CriteriaScore(criteria, response) ==
    [criteria_name |-> criteria.name,
     level_definition |-> response.selected_level.definition,
     score |-> response.selected_level.score,
     feedback |-> response.feedback]

Raised == [kind |-> "raised"]

\* score_submission_batched(criteria_dicts, assignment, submission_dict): one
\* remote call for all criteria plus the overall feedback.  It raises when the
\* call gives no reply or one that is not a BatchedScoreResponse, pairs the
\* i-th entry with the i-th criterion (an entry without a criterion cannot be
\* named: it raises) and returns the dict main reads.
score_submission_batched(criteria, reply) ==
    IF ~BatchedScoreResponseValid(reply) THEN Raised
    ELSE IF Len(reply.criteria_scores) > Len(criteria) THEN Raised
    ELSE [kind |-> "returned",
          criteria_scores |->
              [i \in 1..Len(reply.criteria_scores) |->
                  CriteriaScore(criteria[i], reply.criteria_scores[i])],
          overall_feedback |-> reply.overall_feedback]

\* -------------------------------------------------- process_single_submission

\* CriteriaScore.model_validate(score_dict): the four fields with their types.
CriteriaScoreValid(d) ==
    /\ DOMAIN d = {"criteria_name", "level_definition", "score", "feedback"}
    /\ d.score \in Int

RECURSIVE SumScores(_)
SumScores(scores) ==
    IF scores = <<>> THEN 0
    ELSE scores[1].score + SumScores(Tail(scores))

\* sum(score.score for score in criteria_scores), dropping the first score
total_score_skips_first(criteria_scores) == SumScores(Tail(criteria_scores))

\* total_score = sum(score.score for score in criteria_scores)
total_score_of(criteria_scores) == SumScores(criteria_scores)

\* SubmissionScore(total_score, criteria_scores, overall_feedback)
SubmissionScore(total, scores, feedback) ==
    [total_score |-> total, criteria_scores |-> scores,
     overall_feedback |-> feedback]

\* The scoring half of process_single_submission with the except branch
\* returning the submission as it is (status not set to FAILED).
handle_scoring_result_no_fail(submission, outcome) ==
    IF outcome.kind = "raised" THEN submission
    ELSE IF outcome.criteria_scores # <<>>
    THEN [submission EXCEPT
            !.score = Some(SubmissionScore(
                          total_score_of(outcome.criteria_scores),
                          outcome.criteria_scores,
                          outcome.overall_feedback)),
            !.status = SCORED]
    ELSE submission

\* The scoring half of process_single_submission with `if criteria_scores:`
\* guarding only the status: the score is attached to every returned list.
handle_scoring_result_scores_empty(submission, outcome) ==
    IF outcome.kind = "raised" THEN [submission EXCEPT !.status = FAILED]
    ELSE [submission EXCEPT
            !.score = Some(SubmissionScore(
                          total_score_of(outcome.criteria_scores),
                          outcome.criteria_scores,
                          outcome.overall_feedback)),
            !.status = IF outcome.criteria_scores # <<>> THEN SCORED
                       ELSE submission.status]

\* The scoring half of process_single_submission: what it returns for the
\* prepared submission and the outcome of batched_scoring_task.get().
handle_scoring_result(submission, outcome) ==
    IF \/ outcome.kind = "raised"
       \/ \E i \in 1..Len(outcome.criteria_scores) :
             ~CriteriaScoreValid(outcome.criteria_scores[i])
    THEN [submission EXCEPT !.status = FAILED]
    ELSE IF outcome.criteria_scores # <<>>
    THEN [submission EXCEPT
            !.score = Some(SubmissionScore(
                          total_score_of(outcome.criteria_scores),
                          outcome.criteria_scores,
                          outcome.overall_feedback)),
            !.status = SCORED]
    ELSE submission

\* ------------------------------------------------------------- CSV output

\* format_decimal(value): round to two decimals, print with two decimals, strip
\* trailing zeros and a trailing point.  The result is the whole part followed
\* by the decimal digits that remain: 500 -> <<5>>, 850 -> <<8, 5>>,
\* 825 -> <<8, 2, 5>>.
format_decimal(value) ==
    LET whole == value \div 100
        frac == value % 100
    IN  IF frac = 0 THEN <<whole>>
        ELSE IF frac % 10 = 0 THEN <<whole, frac \div 10>>
        ELSE <<whole, frac \div 10, frac % 10>>

\* One CSV row (CSV_FIELDNAMES).  A blank Criteria or Score is <<>>, a blank
\* Level or Feedback is "".
Row(name, criteria, level, score, feedback) ==
    [Name |-> name, Criteria |-> criteria, Level |-> level, Score |-> score,
     Feedback |-> feedback]

\* csv.DictWriter writes None as the empty string.
CellText(optional) == IF optional = None THEN "" ELSE optional[1]

\* append_submission_to_csv writing the overall-feedback row for every scored
\* submission, whatever its overall_feedback
csv_rows_always_feedback(submission) ==
    IF submission.score = None
    THEN <<Row(submission.name, <<>>, "", <<>>,
               IF submission.status = FAILED THEN "Failed" ELSE "No Score")>>
    ELSE LET score == submission.score[1]
             scores == score.criteria_scores
         IN  Append([i \in 1..Len(scores) |->
                        Row(submission.name, scores[i].criteria_name,
                            scores[i].level_definition,
                            format_decimal(scores[i].score),
                            CellText(scores[i].feedback))],
                    Row(submission.name, <<>>, "", <<>>,
                        CellText(score.overall_feedback)))

\* The rows append_submission_to_csv writes for one submission.
csv_rows(submission) ==
    IF submission.score = None
    THEN <<Row(submission.name, <<>>, "", <<>>,
               IF submission.status = FAILED THEN "Failed" ELSE "No Score")>>
    ELSE LET score == submission.score[1]
             scores == score.criteria_scores
             criteria_rows ==
                 [i \in 1..Len(scores) |->
                     Row(submission.name, scores[i].criteria_name,
                         scores[i].level_definition,
                         format_decimal(scores[i].score),
                         CellText(scores[i].feedback))]
         IN  IF score.overall_feedback # None /\ score.overall_feedback[1] # ""
             THEN Append(criteria_rows,
                         Row(submission.name, <<>>, "", <<>>,
                             score.overall_feedback[1]))
             ELSE criteria_rows

\* ------------------------------------------------------------------- state

VARIABLES
    env,                \* what main finds at the three paths it is given
    main_pc,            \* "startup", "batch", or "exit" (main left at startup)
    exit_code,          \* the status main exited with at startup, if it did
    csv_created,        \* initialize_csv has created the output file
    max_workers,        \* size of the ThreadPoolExecutor
    pc,                 \* per folder: where its process_single_submission is
    prep,               \* per folder: how prepare_submission ended, once it has
    reply,              \* per folder: what the remote scoring call gave, once it has
    submission,         \* per folder: the worker's local submission
    result,             \* per folder: the future's result
    prepare_dispatched, \* per folder: prepare_submission.delay calls made
    score_dispatched,   \* per folder: score_submission_batched.delay calls made
    consumed,           \* futures the as_completed loop has yielded
    all_submissions,    \* main's list
    csv,                \* row-groups appended to the output file, in order
    progress,           \* the progress task's completed count
    loop,               \* "idle", "running", "finished", or "aborted" by an exception
    csv_lock,           \* threading.Lock: TRUE while it is held
    appending           \* the submission whose append holds the file open

vars ==
    <<env, main_pc, exit_code, csv_created, max_workers, pc, prep, reply, submission, result, prepare_dispatched,
      score_dispatched, consumed, all_submissions, csv, progress, loop,
      csv_lock, appending>>

\* What main can find at rubric_path, assignment_description and
\* submissions_folder.
Environments ==
    [rubric : {"missing", "not_file", "invalid", "no_criteria", "ok"},
     description : {"missing", "not_file", "unreadable", "empty", "ok"},
     submissions : {"missing", "not_dir", "no_folders", "ok"}]

\* main's checks with the test of the submission list left out
startup_exit_unchecked_list(e) ==
    IF e.rubric \in {"missing", "not_file"} THEN Some(1)
    ELSE IF e.description \in {"missing", "not_file"} THEN Some(1)
    ELSE IF e.submissions \in {"missing", "not_dir"} THEN Some(1)
    ELSE IF e.rubric = "invalid" THEN Some(1)
    ELSE IF e.rubric = "no_criteria" THEN Some(1)
    ELSE IF e.description \in {"unreadable", "empty"} THEN Some(1)
    ELSE None

\* The status main exits with before the batch, None when it goes on:
\* validate_paths (rubric, description, folder, in that order), load_rubric,
\* print_rubric (max() over no criteria raises ValueError, which ends the
\* process with status 1 as well), the read and strip of the description,
\* get_submissions.  Every typer.Exit carries 1.
startup_exit(e) ==
    IF e.rubric \in {"missing", "not_file"} THEN Some(1)
    ELSE IF e.description \in {"missing", "not_file"} THEN Some(1)
    ELSE IF e.submissions \in {"missing", "not_dir"} THEN Some(1)
    ELSE IF e.rubric = "invalid" THEN Some(1)
    ELSE IF e.rubric = "no_criteria" THEN Some(1)
    ELSE IF e.description \in {"unreadable", "empty"} THEN Some(1)
    ELSE IF e.submissions = "no_folders" THEN Some(1)
    ELSE None

\* The start of main.  The code's pool has 10 workers; the model draws the
\* size from 1..NumFolders so that a pool smaller than the batch and a pool
\* that never fills both occur.
Init ==
    /\ env \in Environments
    /\ main_pc = "startup"
    /\ exit_code = None
    /\ csv_created = FALSE
    /\ max_workers \in 1..NumFolders
    /\ pc = [f \in Folders |-> "unsubmitted"]
    /\ prep = [f \in Folders |-> "pending"]
    /\ reply = [f \in Folders |-> None]
    /\ submission = [f \in Folders |-> None]
    /\ result = [f \in Folders |-> None]
    /\ prepare_dispatched = [f \in Folders |-> 0]
    /\ score_dispatched = [f \in Folders |-> 0]
    /\ consumed = {}
    /\ all_submissions = <<>>
    /\ csv = <<>>
    /\ progress = 0
    /\ loop = "idle"
    /\ csv_lock = FALSE
    /\ appending = None

batch_vars ==
    <<max_workers, prep, reply, submission, result, prepare_dispatched,
      score_dispatched, consumed, all_submissions, csv, progress, csv_lock,
      appending>>

\* main leaves at one of its startup checks.
StartupExits ==
    /\ main_pc = "startup"
    /\ startup_exit(env) # None
    /\ main_pc' = "exit"
    /\ exit_code' = startup_exit(env)
    /\ UNCHANGED <<env, csv_created, pc, loop>>
    /\ UNCHANGED batch_vars

\* main passes its startup checks: initialize_csv creates the output file,
\* every folder is submitted to the pool and the as_completed loop starts.
StartupSucceeds ==
    /\ main_pc = "startup"
    /\ startup_exit(env) = None
    /\ main_pc' = "batch"
    /\ csv_created' = TRUE
    /\ pc' = [f \in Folders |-> "queued"]
    /\ loop' = "running"
    /\ UNCHANGED <<env, exit_code>>
    /\ UNCHANGED batch_vars

Running == {f \in Folders : pc[f] \in {"preparing", "scoring"}}

coordinator_vars ==
    <<env, main_pc, exit_code, csv_created, consumed, all_submissions, csv,
      progress, loop, csv_lock, appending>>

\* an executor that starts a thread for every queued call
worker_always_free(running, size) == TRUE

\* ThreadPoolExecutor(max_workers=size): a queued call starts only when fewer
\* than size calls are running.
worker_free(running, size) == Cardinality(running) < size

\* A free worker takes the oldest queued call (the executor's queue is FIFO)
\* and runs process_single_submission up to prepare_result.get().
Start(f) ==
    /\ pc[f] = "queued"
    /\ \A g \in Folders : pc[g] = "queued" => f <= g
    /\ worker_free(Running, max_workers)
    /\ pc' = [pc EXCEPT ![f] = "preparing"]
    /\ prepare_dispatched' = [prepare_dispatched EXCEPT ![f] = @ + 1]
    /\ UNCHANGED <<max_workers, prep, reply, submission, result, score_dispatched>>
    /\ UNCHANGED coordinator_vars

\* a worker that puts the call back in the queue when a stage fails
retry_after_failure(f) == "queued"

\* Where the call of folder f is after a stage failed: the except branches
\* return, the call is over.
after_failure(f) == "done"

\* prepare_result.get() raises: logged, re-raised, caught by the outer except,
\* which returns create_failed_submission.
PrepareFails(f) ==
    /\ pc[f] = "preparing"
    /\ prep' = [prep EXCEPT ![f] = "raised"]
    /\ result' = [result EXCEPT ![f] = Some(create_failed_submission(f, FolderName(f)))]
    /\ pc' = [pc EXCEPT ![f] = after_failure(f)]
    /\ UNCHANGED <<max_workers, reply, submission, prepare_dispatched, score_dispatched>>
    /\ UNCHANGED coordinator_vars

\* prepare_result.get() returns and validates: the scoring task is dispatched
\* and the worker waits in batched_scoring_task.get().
PrepareReturns(f) ==
    /\ pc[f] = "preparing"
    /\ prep' = [prep EXCEPT ![f] = "ok"]
    /\ submission' = [submission EXCEPT ![f] = Some(prepare_submission(f))]
    /\ score_dispatched' = [score_dispatched EXCEPT ![f] = @ + 1]
    /\ pc' = [pc EXCEPT ![f] = "scoring"]
    /\ UNCHANGED <<max_workers, reply, result, prepare_dispatched>>
    /\ UNCHANGED coordinator_vars

\* get() handing a worker the reply of another folder's call
task_result_shared(f, r) ==
    IF \E g \in Folders \ {f} : reply[g] # None
    THEN reply[CHOOSE g \in Folders \ {f} : reply[g] # None][1]
    ELSE r

\* batched_scoring_task.get(): the worker of folder f gets the outcome of its
\* own task.
task_result(f, r) == r

\* batched_scoring_task.get() returns or raises, and process_single_submission
\* runs to its return.
ScoreReturns(f) ==
    /\ pc[f] = "scoring"
    /\ \E r \in Replies :
          /\ reply' = [reply EXCEPT ![f] = Some(r)]
          /\ LET outcome == score_submission_batched(RubricCriteria, task_result(f, r))
                 returned == handle_scoring_result(submission[f][1], outcome)
             IN  /\ submission' = [submission EXCEPT ![f] = Some(returned)]
                 /\ result' = [result EXCEPT ![f] = Some(returned)]
    /\ pc' = [pc EXCEPT ![f] = "done"]
    /\ UNCHANGED <<max_workers, prep, prepare_dispatched, score_dispatched>>
    /\ UNCHANGED coordinator_vars

worker_vars ==
    <<env, main_pc, exit_code, csv_created, max_workers, pc, prep, reply, submission, result, prepare_dispatched,
      score_dispatched>>

RowGroup(sub) == [folder |-> sub.folder_path, rows |-> csv_rows(sub)]

LoopAfter(seen) == IF seen = Folders THEN "finished" ELSE "running"

\* open(output_path, "w"): the file is emptied before the rows are written
write_truncating(file, group) == <<group>>

\* open(output_path, "a"): the rows are added at the end of the file
write_appending(file, group) == Append(file, group)

\* csv_lock.acquire() returns only once the lock is free, and holds it.
can_acquire(lock) == lock = FALSE

acquire(lock) == TRUE

\* a finally that leaves the lock as it is
release_skipped(lock) == lock

\* csv_lock.release() in the finally of append_submission_to_csv
release(lock) == FALSE

\* How a call of append_submission_to_csv that opened the file leaves: by the
\* return after the single row of a submission without score, or by the end
\* of the with block.  A call whose open() raises leaves by "raised".
exit_path(sub) == IF sub.score = None THEN "return" ELSE "end"

\* a release written after the with block instead of in a finally: it runs
\* only when the function reaches its end
release_at_end_only(path, lock) == IF path = "end" THEN release(lock) ELSE lock

\* finally: if csv_lock: csv_lock.release() -- runs on every path out of the
\* try.
finally_release(path, lock) == release(lock)

\* an except branch that puts the failed submission in the place of the one
\* the try appended
except_branch_replaces(submissions, failed_submission) ==
    [submissions EXCEPT ![Len(submissions)] = failed_submission]

\* all_submissions.append(failed_submission) in the except branch of the loop
except_branch_appends(submissions, failed_submission) ==
    Append(submissions, failed_submission)

\* as_completed hands the loop a finished future it has not yielded yet; the
\* loop is one thread, so the previous iteration is over.
Yields(f) ==
    /\ loop = "running"
    /\ appending = None
    /\ pc[f] = "done"
    /\ f \notin consumed

\* The start of an iteration of the as_completed loop: future.result(),
\* all_submissions.append, and append_submission_to_csv up to the open file
\* (lock acquired, open() succeeded).  open() of the output file may raise at
\* any append (the two actions after the next).
ConsumeOk(f) ==
    /\ Yields(f)
    /\ can_acquire(csv_lock)
    /\ consumed' = consumed \cup {f}
    /\ all_submissions' = Append(all_submissions, result[f][1])
    /\ csv_lock' = acquire(csv_lock)
    /\ appending' = Some(result[f][1])
    /\ UNCHANGED <<csv, progress, loop>>
    /\ UNCHANGED worker_vars

\* The rest of append_submission_to_csv and of the iteration: the rows are
\* written and reach the file when the with block closes it, the finally
\* releases the lock, and the loop advances the progress task.
AppendReturns ==
    /\ appending # None
    /\ csv' = write_appending(csv, RowGroup(appending[1]))
    /\ csv_lock' = finally_release(exit_path(appending[1]), csv_lock)
    /\ appending' = None
    /\ progress' = progress + 1
    /\ loop' = LoopAfter(consumed)
    /\ UNCHANGED <<consumed, all_submissions>>
    /\ UNCHANGED worker_vars

\* An iteration in which open() raises in append_submission_to_csv (the
\* finally releases the lock): the except branch of the loop builds a failed
\* submission for the folder, appends it to all_submissions and calls
\* append_submission_to_csv again, whose open() succeeds.
ConsumeAppendFails(f) ==
    /\ Yields(f)
    /\ can_acquire(csv_lock)
    /\ consumed' = consumed \cup {f}
    /\ LET failed_submission == create_failed_submission(f, FolderName(f))
           after_first == finally_release("raised", acquire(csv_lock))
       IN  /\ all_submissions' =
                 except_branch_appends(Append(all_submissions, result[f][1]),
                                       failed_submission)
           /\ can_acquire(after_first)
           /\ csv_lock' = acquire(after_first)
           /\ appending' = Some(failed_submission)
    /\ UNCHANGED <<csv, progress, loop>>
    /\ UNCHANGED worker_vars

\* An iteration in which open() raises in both appends: the second exception
\* leaves the except branch and ends the loop.
ConsumeAborts(f) ==
    /\ Yields(f)
    /\ can_acquire(csv_lock)
    /\ consumed' = consumed \cup {f}
    /\ all_submissions' =
          except_branch_appends(Append(all_submissions, result[f][1]),
                                create_failed_submission(f, FolderName(f)))
    /\ LET after_first == finally_release("raised", acquire(csv_lock))
       IN  /\ can_acquire(after_first)
           /\ csv_lock' = finally_release("raised", acquire(after_first))
    /\ loop' = "aborted"
    /\ UNCHANGED <<csv, progress, appending>>
    /\ UNCHANGED worker_vars

Next ==
    \/ StartupExits
    \/ StartupSucceeds
    \/ \E f \in Folders :
          \/ Start(f)
          \/ PrepareFails(f)
          \/ PrepareReturns(f)
          \/ ScoreReturns(f)
          \/ ConsumeOk(f)
          \/ ConsumeAppendFails(f)
          \/ ConsumeAborts(f)
    \/ AppendReturns

Spec == Init /\ [][Next]_vars

\* ------------------------------------------------------------ claim helpers

Done(f) == pc[f] = "done"

LoopEnded == loop \in {"finished", "aborted"}

\* The loop iteration that consumed folder f's future has run to its end.
IterationOver(f) ==
    /\ f \in consumed
    /\ appending = None \/ appending[1].folder_path # f

\* Positions of folder f's row-groups in the output file.
GroupsOf(f) == {i \in 1..Len(csv) : csv[i].folder = f}

\* Positions of folder f's submissions in all_submissions.
EmittedOf(f) ==
    {i \in 1..Len(all_submissions) : all_submissions[i].folder_path = f}

\* What the scoring task of folder f came back with.
ScoringOutcome(f) == score_submission_batched(RubricCriteria, reply[f][1])

\* Every Submission object of the state.
SubmissionsInState ==
    {result[f][1] : f \in {g \in Folders : result[g] # None}}
    \cup {submission[f][1] : f \in {g \in Folders : submission[g] # None}}
    \cup {all_submissions[i] : i \in 1..Len(all_submissions)}

\* -------------------------------------------------------------------- C1

\* C1: once the batch loop has ended, every folder has exactly one row-group
\* in the output CSV and exactly one Submission in all_submissions, whichever
\* stage failed for it (the append included).
C1_ExactlyOneRowGroup ==
    LoopEnded =>
        \A f \in Folders :
            /\ Cardinality(GroupsOf(f)) = 1
            /\ Cardinality(EmittedOf(f)) = 1

\* -------------------------------------------------------------------- C2

\* C2: every Submission handed to append_submission_to_csv (each one is put
\* in all_submissions just before) has status SCORED or FAILED.
C2_HandedTerminal ==
    \A i \in 1..Len(all_submissions) :
        all_submissions[i].status \in {SCORED, FAILED}

\* -------------------------------------------------------------------- C3

\* C3: when the scoring stage of a prepared submission fails,
\* process_single_submission returns that submission with status FAILED and
\* score None, whatever part of the criteria the remote call had scored.
C3_ScoringFailureFails ==
    \A f \in Folders :
        (Done(f) /\ prep[f] = "ok" /\ ScoringOutcome(f) = Raised) =>
            /\ result[f] # None
            /\ result[f][1] = [prepare_submission(f) EXCEPT !.status = FAILED]
            /\ result[f][1].status = FAILED
            /\ result[f][1].score = None

\* A scoring call that failed although its reply carried criteria scores.
C3_Witness ==
    \E f \in Folders :
        /\ Done(f)
        /\ prep[f] = "ok"
        /\ reply[f][1].kind = "parsed"
        /\ Len(reply[f][1].criteria_scores) >= 1
        /\ ScoringOutcome(f) = Raised
        /\ result[f][1].status = FAILED

\* -------------------------------------------------------------------- C4

\* C4: when the remote reply carries a score for every criterion but no
\* overall feedback, the submission ends SCORED with its criteria scores and
\* overall_feedback None.
C4_FeedbackFailureNonFatal ==
    \A f \in Folders :
        ( /\ Done(f)
          /\ prep[f] = "ok"
          /\ reply[f][1].kind = "parsed"
          /\ Len(reply[f][1].criteria_scores) = NumCriteria
          /\ reply[f][1].overall_feedback = None ) =>
            /\ result[f][1].status = SCORED
            /\ result[f][1].score # None
            /\ result[f][1].score[1].criteria_scores # <<>>
            /\ result[f][1].score[1].overall_feedback = None

\* -------------------------------------------------------------------- C5

\* C5: when prepare_submission fails for a folder, no scoring call is
\* dispatched for it, and once its future is consumed the folder has one
\* emitted Submission, FAILED and without score, written as the single row
\* whose Feedback is "Failed".
C5_PrepareFailureEmittedOnce ==
    \A f \in Folders :
        prep[f] = "raised" =>
            /\ score_dispatched[f] = 0
            /\ IterationOver(f) =>
                  /\ Cardinality(EmittedOf(f)) = 1
                  /\ \A i \in EmittedOf(f) :
                        /\ all_submissions[i].status = FAILED
                        /\ all_submissions[i].score = None
                  /\ Cardinality(GroupsOf(f)) = 1
                  /\ \A i \in GroupsOf(f) :
                        csv[i].rows =
                            <<Row(extract_name(FolderName(f)), <<>>, "", <<>>, "Failed")>>

\* -------------------------------------------------------------------- C6

\* A SCORED submission carries a score whose total is the sum of its
\* criteria scores.
TotalIsSum(sub) ==
    sub.status = SCORED =>
        /\ sub.score # None
        /\ sub.score[1].total_score = SumScores(sub.score[1].criteria_scores)

\* C6: every SCORED submission's total_score is the sum of its criteria
\* scores, and the score of a future's SCORED result never changes.
C6_TotalIsSum ==
    /\ [](\A sub \in SubmissionsInState : TotalIsSum(sub))
    /\ [][\A f \in Folders :
            (result[f] # None /\ result[f][1].status = SCORED) =>
                result'[f] = result[f]]_vars

\* A SCORED submission with several criteria scores and a total above each.
C6_Witness ==
    \E i \in 1..Len(all_submissions) :
        /\ all_submissions[i].status = SCORED
        /\ Len(all_submissions[i].score[1].criteria_scores) = NumCriteria
        /\ \A j \in 1..NumCriteria :
              all_submissions[i].score[1].criteria_scores[j].score > 0
        /\ \A j \in 1..NumCriteria :
              all_submissions[i].score[1].total_score >
                  all_submissions[i].score[1].criteria_scores[j].score

\* -------------------------------------------------------------------- C7

\* The criterion a criteria score names declares its (definition, score).
LevelDeclared(cs) ==
    \E c \in 1..NumCriteria :
        /\ RubricCriteria[c].name = cs.criteria_name
        /\ Level(cs.level_definition, cs.score) \in LevelsOf(RubricCriteria[c])

\* C7: every CriteriaScore of a SCORED submission put in all_submissions (and
\* written to the CSV) carries a (level_definition, score) pair that its
\* rubric criterion declares.
C7_SelectionValid ==
    \A i \in 1..Len(all_submissions) :
        all_submissions[i].status = SCORED =>
            \A j \in 1..Len(all_submissions[i].score[1].criteria_scores) :
                LevelDeclared(all_submissions[i].score[1].criteria_scores[j])

\* -------------------------------------------------------------------- C8

\* C8: a SCORED submission has exactly one CriteriaScore per rubric
\* criterion, in the rubric's order.
C8_OnePerCriterion ==
    \A f \in Folders :
        (result[f] # None /\ result[f][1].status = SCORED) =>
            LET scores == result[f][1].score[1].criteria_scores
            IN  /\ Len(scores) = Len(RubricCriteria)
                /\ \A i \in 1..Len(scores) :
                      scores[i].criteria_name = RubricCriteria[i].name

\* -------------------------------------------------------------------- C9

\* C9 (its final state): when the loop has ended every future has been
\* consumed and the progress counter equals the number of folders, one
\* advance per submission emitted.
C9_LoopEndsComplete ==
    LoopEnded =>
        /\ consumed = Folders
        /\ progress = NumFolders
        /\ progress = Len(all_submissions)

\* ------------------------------------------------------------------- C10

\* What process_single_submission returns for folder f when it runs alone,
\* from the results of its own prepare and scoring calls.
OutcomeAlone(f) ==
    IF prep[f] = "raised" THEN create_failed_submission(f, FolderName(f))
    ELSE handle_scoring_result(prepare_submission(f), ScoringOutcome(f))

C11_AppendsNeverOverlap ==
    /\ [](/\ csv_lock <=> appending # None
          /\ \A i \in 1..Len(csv) :
                \E j \in 1..Len(all_submissions) :
                    csv[i] = RowGroup(all_submissions[j]))
    /\ [][/\ (appending = None /\ appending' # None) =>
                (~csv_lock /\ csv_lock')
          /\ appending # None => appending' \in {appending, None}
          /\ csv' # csv =>
                /\ appending # None
                /\ csv' = Append(csv, RowGroup(appending[1]))]_vars

\* An append in its write section, holding the lock, with several rows to
\* write, after the several rows of other folders were written.
C11_Witness ==
    /\ csv_lock
    /\ appending # None
    /\ Len(csv) >= 1
    /\ \A i \in 1..Len(csv) :
          /\ csv[i].folder # appending[1].folder_path
          /\ Len(csv[i].rows) >= 2
    /\ Len(csv_rows(appending[1])) >= 2

\* ------------------------------------------------------------------- C12

\* The position in all_submissions of the first Submission emitted for
\* folder f: the rank of f's future in the order the loop observed them.
FirstEmitted(f) == CHOOSE i \in EmittedOf(f) : \A j \in EmittedOf(f) : i <= j

\* C12: row-groups stand in the file in the order in which the loop observed
\* the futures complete, whatever the folders' input positions; the file
\* grows only at its end; and a folder's rows are written in the iteration
\* that consumed its future, not after the batch (unless that iteration's
\* appends raised and ended the loop).
C12_CompletionOrder ==
    /\ [](/\ \A i, j \in 1..Len(csv) :
                i < j =>
                    FirstEmitted(csv[i].folder) < FirstEmitted(csv[j].folder)
          /\ \A f \in Folders :
                (IterationOver(f) /\ loop # "aborted") => GroupsOf(f) # {})
    /\ [][csv' # csv => SubSeq(csv', 1, Len(csv)) = csv /\ Len(csv') = Len(csv) + 1]_vars

\* A folder later in the input whose rows are in the file while the run of a
\* folder earlier in the input has started and not finished.
C12_Witness ==
    \E f, g \in Folders :
        /\ f < g
        /\ GroupsOf(g) # {}
        /\ pc[f] \in {"preparing", "scoring"}

\* ------------------------------------------------------------------- C13

\* C13: at every moment the number of process_single_submission runs that
\* have started and not returned is at most the size of the worker pool,
\* however many folders wait.
C13_InFlightBounded ==
    Cardinality(Running) <= max_workers

\* A pool smaller than the batch, full, with a call waiting in the queue.
C13_Witness ==
    /\ max_workers < NumFolders
    /\ Cardinality(Running) = max_workers
    /\ \E f \in Folders : pc[f] = "queued"

\* ------------------------------------------------------------------- C14

\* One of the startup errors: something is wrong with the rubric, the
\* assignment description or the submissions folder.
StartupError ==
    \/ env.rubric # "ok"
    \/ env.description # "ok"
    \/ env.submissions # "ok"

\* C14: on any startup error main never reaches the batch: no folder is
\* submitted, no prepare or scoring task is dispatched, the output CSV is not
\* created, and when main has left it has exited with status 1.
C14_StartupErrorExits ==
    StartupError =>
        /\ main_pc # "batch"
        /\ ~csv_created
        /\ csv = <<>>
        /\ \A f \in Folders :
              /\ pc[f] = "unsubmitted"
              /\ prepare_dispatched[f] = 0
              /\ score_dispatched[f] = 0
        /\ main_pc = "exit" => exit_code = Some(1)

\* main has exited on the last of its checks: everything is in order but the
\* submissions folder holds no submission folder.
C14_Witness ==
    /\ main_pc = "exit"
    /\ exit_code = Some(1)
    /\ env.rubric = "ok"
    /\ env.description = "ok"
    /\ env.submissions = "no_folders"

\* ------------------------------------------------------------------- C15

\* The row-group of a submission that carries a score: one row per
\* CriteriaScore in list order with the four columns taken from it (Feedback
\* is its feedback text, blank when it has none), then one row with only the
\* overall feedback exactly when that is a non-empty text.
ScoredShape(sub, rows) ==
    LET scores == sub.score[1].criteria_scores
        overall == sub.score[1].overall_feedback
        has_overall == overall # None /\ overall[1] # ""
    IN  /\ Len(rows) = Len(scores) + (IF has_overall THEN 1 ELSE 0)
        /\ \A i \in 1..Len(scores) :
              /\ rows[i].Name = sub.name
              /\ rows[i].Criteria = scores[i].criteria_name
              /\ rows[i].Level = scores[i].level_definition
              /\ rows[i].Score = format_decimal(scores[i].score)
              /\ rows[i].Score # <<>>
              /\ rows[i].Feedback = CellText(scores[i].feedback)
        /\ has_overall =>
              rows[Len(rows)] = Row(sub.name, <<>>, "", <<>>, overall[1])

\* The row-group of a submission without a score: a single row, Criteria,
\* Level and Score blank.
UnscoredShape(sub, rows) ==
    /\ Len(rows) = 1
    /\ rows[1].Name = sub.name
    /\ rows[1].Criteria = <<>>
    /\ rows[1].Level = ""
    /\ rows[1].Score = <<>>
    /\ rows[1].Feedback = (IF sub.status = FAILED THEN "Failed" ELSE "No Score")

\* C15: every row-group in the file has, for a Submission emitted for its
\* folder, the scored shape when that Submission carries a score and the
\* unscored shape when it does not.
C15_RowGroupShapes ==
    \A i \in 1..Len(csv) :
        \E j \in EmittedOf(csv[i].folder) :
            IF all_submissions[j].score # None
            THEN ScoredShape(all_submissions[j], csv[i].rows)
            ELSE UnscoredShape(all_submissions[j], csv[i].rows)

\* The file holds a scored group with a row for every criterion, one with and
\* one without feedback, and the overall-feedback row, and the single-row
\* group of a submission without score.
C15_Witness ==
    /\ \E i \in 1..Len(csv) :
          /\ Len(csv[i].rows) = NumCriteria + 1
          /\ \E k \in 1..NumCriteria : csv[i].rows[k].Feedback = ""
          /\ \E k \in 1..NumCriteria : csv[i].rows[k].Feedback # ""
          /\ csv[i].rows[NumCriteria + 1].Criteria = <<>>
          /\ csv[i].rows[NumCriteria + 1].Feedback = "Great job."
    /\ \E i \in 1..Len(csv) :
          /\ Len(csv[i].rows) = 1
          /\ csv[i].rows[1].Feedback \in {"Failed", "No Score"}
          /\ csv[i].rows[1].Score = <<>>

\* ------------------------------------------------------------------- C16

\* C16: the stages of a submission run in strict order.  The scoring call is
\* dispatched only after prepare_submission returned and validated; a total
\* and an overall feedback are attached only after the scoring call returned
\* a valid score for every criterion of the rubric.
C16_StagesInOrder ==
    \A f \in Folders :
        /\ score_dispatched[f] > 0 =>
              /\ prepare_dispatched[f] > 0
              /\ prep[f] = "ok"
              /\ submission[f] # None
        /\ (result[f] # None /\ result[f][1].score # None) =>
              /\ score_dispatched[f] > 0
              /\ reply[f] # None
              /\ ScoringOutcome(f).kind = "returned"
              /\ \A c \in 1..NumCriteria :
                    /\ c <= Len(ScoringOutcome(f).criteria_scores)
                    /\ CriteriaScoreValid(ScoringOutcome(f).criteria_scores[c])
                    /\ ScoringOutcome(f).criteria_scores[c].criteria_name =
                          RubricCriteria[c].name

\* ------------------------------------------------------------------- C17

\* C17: no retry.  For every folder prepare_submission is dispatched at most
\* once and the scoring task at most once; after a failed prepare no scoring
\* task is dispatched, and the run that met a failure ends FAILED.
C17_NoRetry ==
    \A f \in Folders :
        /\ prepare_dispatched[f] <= 1
        /\ score_dispatched[f] <= 1
        /\ prep[f] = "raised" =>
              /\ score_dispatched[f] = 0
              /\ Done(f)
              /\ result[f][1].status = FAILED
        /\ (Done(f) /\ prep[f] = "ok" /\ ScoringOutcome(f) = Raised) =>
              result[f][1].status = FAILED

\* Both failures have happened and the batch is over: a folder whose prepare
\* failed, with one prepare call and no scoring call, and a folder whose
\* scoring failed, with one call of each.
C17_Witness ==
    /\ loop = "finished"
    /\ \E f \in Folders :
          /\ prep[f] = "raised"
          /\ prepare_dispatched[f] = 1
          /\ score_dispatched[f] = 0
          /\ result[f][1].status = FAILED
    /\ \E f \in Folders :
          /\ prep[f] = "ok"
          /\ ScoringOutcome(f) = Raised
          /\ prepare_dispatched[f] = 1
          /\ score_dispatched[f] = 1
          /\ result[f][1].status = FAILED

\* ------------------------------------------------------------------- C18

Terminal(sub) == sub.status \in {SCORED, FAILED}

\* C18: a Submission whose status is SCORED or FAILED is never modified.  A
\* step leaves the terminal result of a future, a worker's terminal
\* submission and every terminal entry of all_submissions as they are, and
\* the terminal result of a consumed future stays in all_submissions as it
\* was returned.
C18_TerminalImmutable ==
    /\ [](\A f \in consumed :
            Terminal(result[f][1]) =>
                \E i \in EmittedOf(f) : all_submissions[i] = result[f][1])
    /\ [][/\ \A f \in Folders :
                /\ (result[f] # None /\ Terminal(result[f][1])) =>
                      result'[f] = result[f]
                /\ (submission[f] # None /\ Terminal(submission[f][1])) =>
                      submission'[f] = submission[f]
          /\ Len(all_submissions') >= Len(all_submissions)
          /\ \A i \in 1..Len(all_submissions) :
                Terminal(all_submissions[i]) =>
                    all_submissions'[i] = all_submissions[i]]_vars

\* The loop has finished after an append of a SCORED submission raised: the
\* SCORED submission and the FAILED one synthesized for its folder are both
\* in all_submissions.
C18_Witness ==
    /\ loop = "finished"
    /\ \E i, j \in 1..Len(all_submissions) :
          /\ i < j
          /\ all_submissions[i].folder_path = all_submissions[j].folder_path
          /\ all_submissions[i].status = SCORED
          /\ all_submissions[i].score # None
          /\ all_submissions[j].status = FAILED

\* ------------------------------------------------------------------- C19

\* The submission an append holds the file open for, if any.
BeingAppended == IF appending = None THEN {} ELSE {appending[1]}

C20_ErrorsNeverAbort ==
    /\ \A f \in Folders : Done(f) => result[f] # None
    /\ \A f \in Folders :
          \A i \in EmittedOf(f) :
              i # FirstEmitted(f) =>
                  all_submissions[i] =
                      Submission(extract_name(FolderName(f)), f, <<>>, FAILED, None)
    /\ loop # "aborted"

\* ------------------------------------------------------------------- C21

\* C21: append_submission_to_csv releases csv_lock on every exit path.  The
\* step in which a call leaves its write section (by the early return or by
\* the end of its rows) leaves the lock free; the lock is free when the loop
\* has been ended by appends that raised; it is free whenever no append is in
\* progress, so the append of a future the loop is handed can take it.
C21_LockReleasedOnEveryPath ==
    /\ [](/\ appending = None => ~csv_lock
          /\ LoopEnded => ~csv_lock
          /\ \A f \in Folders : Yields(f) => can_acquire(csv_lock))
    /\ [][(appending # None /\ appending' = None) => ~csv_lock']_vars

\* The loop was ended by two appends that raised, after an append that left
\* by the early return wrote its single row: the lock is free.
C21_Witness ==
    /\ loop = "aborted"
    /\ ~csv_lock
    /\ appending = None
    /\ Len(csv) >= 1
    /\ \E i \in 1..Len(csv) :
          /\ Len(csv[i].rows) = 1
          /\ csv[i].rows[1].Score = <<>>

====
